---- MODULE Spec2Model ----
(***************************************************************************)
(* RiskRadar: the fire-risk scoring, zone classification and heatmap       *)
(* intensity code of app_with_date_selector.py ("date" variant) and        *)
(* riskradar_app.py ("legacy" variant).                                    *)
(*                                                                         *)
(* Numbers.  The Python code computes in binary floating point; the model  *)
(* computes the same expressions exactly, in fixed point:                  *)
(*   - a weather or detection input x is held as Val(x) = 2*x (halves),    *)
(*   - a factor f in [0,1] is held as 600*f (600 = lcm of the divisors     *)
(*     15, 50, 20, 10, 100 of the code, times the input unit),             *)
(*   - a weight 0.35 is held as 35 (hundredths),                           *)
(*   - a risk score s is held as 60000*s,                                  *)
(*   - a heatmap intensity i is held as 6000*i,                            *)
(*   - a coordinate is held in units of 0.0001 degree.                     *)
(* Every division of the code is exact in these units.                     *)
(***************************************************************************)
EXTENDS Integers, Sequences, FiniteSets, TLC

VARIABLES variant, weather_data, firms_data, pc, risk_score, zone_name, heatmap_data,
          risk_score_rounded, star_display, marker_color,
          weather_data_full, selected_date, location, runs, other

vars == <<variant, weather_data, firms_data, pc, risk_score, zone_name, heatmap_data,
          risk_score_rounded, star_display, marker_color,
          weather_data_full, selected_date, location, runs, other>>

(***************************************************************************)
(* Bounds of the model.                                                    *)
(***************************************************************************)
\* largest number of detection rows in firms_data
MaxRecords == 2
\* largest number of rows in the weather table weather_data_full
MaxRows == 2
\* largest number of times the script is run in one session
MaxRuns == 2
\* the monotonicity comparisons range over every half unit in -10..MaxPhys
MaxPhys == 80

(***************************************************************************)
(* Fixed-point representation.                                             *)
(***************************************************************************)
Val(x) == 2 * x
Factor(n, d) == (600 * n) \div d
ScoreVal(hundredths) == 600 * hundredths
IntensityVal(n, d) == (6000 * n) \div d
Min2(a, b) == IF b < a THEN b ELSE a
Max2(a, b) == IF b > a THEN b ELSE a

(***************************************************************************)
(* Cells of the CSV tables.  A numeric cell carries its value; a cell that *)
(* holds text such as "abc" is not numeric.  float() returns the value of  *)
(* a numeric cell and raises ValueError on any other.                      *)
(***************************************************************************)
Num(v) == [num |-> TRUE, val |-> v]
NonNumeric == [num |-> FALSE, val |-> 0]

Return(v) == [raised |-> "none", value |-> v]
Raise(e) == [raised |-> e, value |-> 0]
NotRun == [raised |-> "notrun", value |-> 0]

\* the first column of cols (in order) whose extraction fails, 0 if none:
\* row[col] raises KeyError on an absent column, float(...) raises
\* ValueError on a non-numeric cell
RECURSIVE FirstFailure(_, _, _)
FirstFailure(row, cols, i) ==
    IF i > Len(cols) THEN 0
    ELSE IF cols[i] \notin DOMAIN row THEN i
    ELSE IF ~row[cols[i]].num THEN i
    ELSE FirstFailure(row, cols, i + 1)

ExtractError(row, cols) ==
    LET i == FirstFailure(row, cols, 1)
    IN  IF i = 0 THEN "none"
        ELSE IF cols[i] \notin DOMAIN row THEN "KeyError"
        ELSE "ValueError"

Float(cell) == cell.val

(***************************************************************************)
(* The four (date variant) or three (legacy variant) piecewise factors.    *)
(***************************************************************************)
\* temp_factor without the ceiling branch
temp_factor_noceiling(temperature) ==
    IF temperature < Val(25) THEN Factor(0, 1)
    ELSE Factor(temperature - Val(25), Val(15))

\* temp_factor interpolating over a range of 20 degrees instead of 15
temp_factor_range20(temperature) ==
    IF temperature < Val(25) THEN Factor(0, 1)
    ELSE IF temperature >= Val(40) THEN Factor(1, 1)
    ELSE Factor(temperature - Val(25), Val(20))

temp_factor(temperature) ==
    IF temperature < Val(25) THEN Factor(0, 1)
    ELSE IF temperature >= Val(40) THEN Factor(1, 1)
    ELSE Factor(temperature - Val(25), Val(15))

humidity_factor(humidity) ==
    IF humidity >= Val(70) THEN Factor(0, 1)
    ELSE IF humidity <= Val(20) THEN Factor(1, 1)
    ELSE Factor(Val(70) - humidity, Val(50))

\* wind_factor with a calm-wind floor of 0.0
wind_factor_zerofloor(wind_speed) ==
    IF wind_speed < Val(5) THEN Factor(0, 10)
    ELSE IF wind_speed >= Val(25) THEN Factor(1, 1)
    ELSE Factor(wind_speed - Val(5), Val(20))

wind_factor(wind_speed) ==
    IF wind_speed < Val(5) THEN Factor(2, 10)
    ELSE IF wind_speed >= Val(25) THEN Factor(1, 1)
    ELSE Factor(wind_speed - Val(5), Val(20))

\* precip_factor interpolating in the direct sense
precip_factor_direct(precipitation) ==
    IF precipitation > Val(10) THEN Factor(0, 1)
    ELSE IF precipitation <= Val(0) THEN Factor(1, 1)
    ELSE Factor(precipitation, Val(10))

precip_factor(precipitation) ==
    IF precipitation > Val(10) THEN Factor(0, 1)
    ELSE IF precipitation <= Val(0) THEN Factor(1, 1)
    ELSE Factor(Val(10) - precipitation, Val(10))

(***************************************************************************)
(* str.lower() on the labels, and the weather_risk table of the legacy     *)
(* variant.  A label is the sequence of its characters.                    *)
(***************************************************************************)
UpperToLower ==
    [A |-> "a", B |-> "b", C |-> "c", D |-> "d", E |-> "e", F |-> "f", G |-> "g",
     H |-> "h", I |-> "i", J |-> "j", K |-> "k", L |-> "l", M |-> "m", N |-> "n",
     O |-> "o", P |-> "p", Q |-> "q", R |-> "r", S |-> "s", T |-> "t", U |-> "u",
     V |-> "v", W |-> "w", X |-> "x", Y |-> "y", Z |-> "z"]

\* a lower() that leaves its argument as it is
Lower_unchanged(s) == s

Lower(s) ==
    [i \in 1..Len(s) |-> IF s[i] \in DOMAIN UpperToLower THEN UpperToLower[s[i]] ELSE s[i]]

weather_risk ==
    { << <<"c","l","e","a","r">>, Factor(8, 10) >>,
      << <<"s","u","n","n","y">>, Factor(8, 10) >>,
      << <<"c","l","o","u","d","y">>, Factor(4, 10) >>,
      << <<"p","a","r","t","l","y"," ","c","l","o","u","d","y">>, Factor(5, 10) >>,
      << <<"o","v","e","r","c","a","s","t">>, Factor(3, 10) >>,
      << <<"r","a","i","n">>, Factor(0, 10) >>,
      << <<"d","r","i","z","z","l","e">>, Factor(2, 10) >>,
      << <<"t","h","u","n","d","e","r","s","t","o","r","m">>, Factor(1, 10) >>,
      << <<"f","o","g">>, Factor(3, 10) >>,
      << <<"m","i","s","t">>, Factor(3, 10) >> }

\* weather_risk.get(weather_type, 0.5)
weather_factor(weather_type) ==
    IF \E e \in weather_risk : e[1] = weather_type
    THEN (CHOOSE e \in weather_risk : e[1] = weather_type)[2]
    ELSE Factor(5, 10)

(***************************************************************************)
(* calculate_risk_from_weather, both variants.                             *)
(***************************************************************************)
DateColumns == <<"temperature", "humidity", "wind_speed", "precipitation">>
LegacyColumns == <<"temperature", "wind_speed", "precipitation">>

risk_formula_date(temperature, humidity, wind_speed, precipitation) ==
    (35 * temp_factor(temperature) + 25 * humidity_factor(humidity)
       + 25 * wind_factor(wind_speed) + 15 * precip_factor(precipitation)) * 10

risk_formula_legacy(temperature, wind_speed, precipitation, weather_type) ==
    (35 * temp_factor(temperature) + 30 * wind_factor(wind_speed)
       + 20 * precip_factor(precipitation) + 15 * weather_factor(weather_type)) * 10

\* calculate_risk_from_weather substituting the default score for a missing field
calculate_risk_date_default(wd) ==
    IF DOMAIN wd = {} THEN Return(ScoreVal(500))
    ELSE IF ExtractError(wd, DateColumns) # "none" THEN Return(ScoreVal(500))
    ELSE Return(risk_formula_date(Float(wd["temperature"]), Float(wd["humidity"]),
                                  Float(wd["wind_speed"]), Float(wd["precipitation"])))

calculate_risk_date(wd) ==
    IF DOMAIN wd = {} THEN Return(ScoreVal(500))
    ELSE IF ExtractError(wd, DateColumns) # "none" THEN Raise(ExtractError(wd, DateColumns))
    ELSE Return(risk_formula_date(Float(wd["temperature"]), Float(wd["humidity"]),
                                  Float(wd["wind_speed"]), Float(wd["precipitation"])))

calculate_risk_legacy(wd) ==
    IF DOMAIN wd = {} THEN Return(ScoreVal(500))
    ELSE IF ExtractError(wd, LegacyColumns) # "none" THEN Raise(ExtractError(wd, LegacyColumns))
    ELSE IF "weather_type" \notin DOMAIN wd THEN Raise("KeyError")
    ELSE Return(risk_formula_legacy(Float(wd["temperature"]), Float(wd["wind_speed"]),
                                    Float(wd["precipitation"]), Lower(wd["weather_type"])))

calculate_risk_from_weather(v, wd) ==
    IF v = "date" THEN calculate_risk_date(wd) ELSE calculate_risk_legacy(wd)

(***************************************************************************)
(* Zone classification (the if/elif/else chain of the main script).        *)
(***************************************************************************)
\* classify_zone with strict comparisons
classify_zone_strict(score) ==
    IF score < ScoreVal(300) THEN "SAFE ZONE"
    ELSE IF score < ScoreVal(600) THEN "MODERATE RISK"
    ELSE "DANGER ZONE"

classify_zone(score) ==
    IF score <= ScoreVal(300) THEN "SAFE ZONE"
    ELSE IF score <= ScoreVal(600) THEN "MODERATE RISK"
    ELSE "DANGER ZONE"

(***************************************************************************)
(* The star rating: risk_score_rounded = round(risk_score), Python's round *)
(* to the nearest integer with ties going to the even one, and             *)
(* star_display = filled * n + empty * (10 - n); a repetition count below  *)
(* one gives the empty string.                                             *)
(***************************************************************************)
\* round with ties going up
py_round_halfup(score) ==
    LET q == score \div ScoreVal(100)
        r == score % ScoreVal(100)
    IN  IF 2 * r < ScoreVal(100) THEN q ELSE q + 1

py_round(score) ==
    LET q == score \div ScoreVal(100)
        r == score % ScoreVal(100)
    IN  IF 2 * r < ScoreVal(100) THEN q
        ELSE IF 2 * r > ScoreVal(100) THEN q + 1
        ELSE IF q % 2 = 0 THEN q ELSE q + 1

Repeat(symbol, n) == [i \in 1..n |-> symbol]

star_display_of(rounded) == Repeat("filled", rounded) \o Repeat("empty", 10 - rounded)

(***************************************************************************)
(* The marker colour chain of create_fire_map / create_california_map.     *)
(***************************************************************************)
\* the marker chain with strict comparisons
marker_color_strict(score) ==
    IF score < ScoreVal(300) THEN "green"
    ELSE IF score < ScoreVal(600) THEN "orange"
    ELSE "red"

marker_color_of(score) ==
    IF score <= ScoreVal(300) THEN "green"
    ELSE IF score <= ScoreVal(600) THEN "orange"
    ELSE "red"

(***************************************************************************)
(* create_heatmap_from_firms, both variants.  A detection row maps the     *)
(* columns latitude, longitude, bright_t31 and frp to cells; a point is    *)
(* the list [lat, lon, intensity].                                         *)
(***************************************************************************)
FirmsColumns == <<"latitude", "longitude", "bright_t31", "frp">>

brightness_norm(brightness) ==
    Max2(Factor(0, 1), Min2(Factor(brightness - Val(300), Val(100)), Factor(1, 1)))

frp_norm(frp) ==
    Max2(Factor(0, 1), Min2(Factor(frp, Val(100)), Factor(1, 1)))

\* intensity without the lower clamp at 0.1
intensity_of_nofloor(brightness, frp) ==
    Min2(6 * frp_norm(frp) + 4 * brightness_norm(brightness), IntensityVal(1, 1))

intensity_of(brightness, frp) ==
    Max2(IntensityVal(1, 10),
         Min2(6 * frp_norm(frp) + 4 * brightness_norm(brightness), IntensityVal(1, 1)))

\* a point with latitude and longitude exchanged
heatmap_point_swapped(row) ==
    << Float(row["longitude"]), Float(row["latitude"]),
       intensity_of(Float(row["bright_t31"]), Float(row["frp"])) >>

heatmap_point(row) ==
    << Float(row["latitude"]), Float(row["longitude"]),
       intensity_of(Float(row["bright_t31"]), Float(row["frp"])) >>

\* the for loop over firms_data.iterrows(): an exception in a row leaves the
\* function, no row is skipped
RECURSIVE heatmap_loop(_, _, _)
heatmap_loop(fd, i, acc) ==
    IF i > Len(fd) THEN Return(acc)
    ELSE IF ExtractError(fd[i], FirmsColumns) # "none"
         THEN [raised |-> ExtractError(fd[i], FirmsColumns), value |-> <<>>]
    ELSE heatmap_loop(fd, i + 1, Append(acc, heatmap_point(fd[i])))

DefaultLat == 367783
DefaultLon == -1194179

fallback_intensity(v) ==
    IF v = "date" THEN IntensityVal(1, 10) ELSE IntensityVal(5, 10)

\* the list of points kept from one call to the next instead of starting empty
create_heatmap_from_firms_keeps_list(v, fd) ==
    IF fd = <<>> THEN Return(<< <<DefaultLat, DefaultLon, fallback_intensity(v)>> >>)
    ELSE heatmap_loop(fd, 1, heatmap_data.value)

create_heatmap_from_firms(v, fd) ==
    IF fd = <<>> THEN Return(<< <<DefaultLat, DefaultLon, fallback_intensity(v)>> >>)
    ELSE heatmap_loop(fd, 1, <<>>)

(***************************************************************************)
(* Inputs: the weather reading and the detection table handed to the       *)
(* functions.                                                              *)
(***************************************************************************)
Variants == {"date", "legacy"}

\* the state of a second session of the same program (none in a single run)
NoOther ==
    [weather_data |-> <<>>, firms_data |-> <<>>, pc |-> "absent", risk_score |-> NotRun,
     zone_name |-> "unset", heatmap_data |-> [raised |-> "notrun", value |-> <<>>]]

TempValues == {Val(-10), Val(20), Val(25), Val(32) + 1, Val(40), Val(45)}
HumidityValues == {Val(-5), Val(20), Val(45), Val(70), Val(80), Val(110)}
WindValues == {Val(-3), Val(2), Val(5), Val(7), Val(9), Val(25), Val(60)}
PrecipValues == {Val(-1), Val(0), Val(5), Val(10), Val(15)}
WeatherTypes ==
    { <<"c","l","e","a","r">>, <<"R","a","i","n">>, <<"R","A","I","N">>,
      <<"F","o","g">>, <<"h","a","i","l">> }

FullReadings(v) ==
    IF v = "date"
    THEN { [temperature |-> Num(t), humidity |-> Num(h), wind_speed |-> Num(w),
            precipitation |-> Num(p)] :
             t \in TempValues, h \in HumidityValues, w \in WindValues, p \in PrecipValues }
    ELSE { [temperature |-> Num(t), wind_speed |-> Num(w), precipitation |-> Num(p),
            weather_type |-> l] :
             t \in TempValues, w \in WindValues, p \in PrecipValues, l \in WeatherTypes }

\* every reading with all its fields, and every reading lacking some of them
\* (the empty reading included)
Readings(v) ==
    { [f \in S |-> r[f]] : r \in FullReadings(v), S \in SUBSET (DOMAIN CHOOSE x \in FullReadings(v) : TRUE) }

LatCells == {Num(340522), Num(367783), Num(950000)}
LonCells == {Num(-1182437), NonNumeric}
BrightCells == {Num(Val(250)), Num(Val(350)), Num(Val(450))}
FrpCells == {Num(Val(-10)), Num(Val(50)), Num(Val(150)), NonNumeric}

FirmsRows ==
    { [latitude |-> la, longitude |-> lo, bright_t31 |-> b, frp |-> f] :
        la \in LatCells, lo \in LonCells, b \in BrightCells, f \in FrpCells }

FirmsTables == UNION { [1..n -> FirmsRows] : n \in 0..MaxRecords }

(***************************************************************************)
(* The script: score, classify, build the map.                             *)
(***************************************************************************)
Init ==
    /\ variant \in Variants
    /\ \/ weather_data \in Readings(variant) /\ firms_data = <<>>
       \/ weather_data = <<>> /\ firms_data \in FirmsTables
    /\ pc = "score"
    /\ risk_score = NotRun
    /\ zone_name = "unset"
    /\ heatmap_data = [raised |-> "notrun", value |-> <<>>]
    /\ risk_score_rounded = -1
    /\ star_display = <<>>
    /\ marker_color = "unset"
    /\ runs = 1
    /\ other = NoOther
    /\ weather_data_full = <<>>
    /\ selected_date = 0
    /\ location = <<>>

\* risk_score = calculate_risk_from_weather(...); risk_score_rounded =
\* round(risk_score); an exception ends the script
CalculateRisk ==
    /\ pc = "score"
    /\ risk_score' = calculate_risk_from_weather(variant, weather_data)
    /\ pc' = IF risk_score'.raised = "none" THEN "classify" ELSE "error"
    /\ risk_score_rounded' =
          IF risk_score'.raised = "none" THEN py_round(risk_score'.value)
          ELSE risk_score_rounded
    /\ UNCHANGED <<variant, weather_data, firms_data, zone_name, heatmap_data,
                   star_display, marker_color,
                   weather_data_full, selected_date, location, runs, other>>

ClassifyZone ==
    /\ pc = "classify"
    /\ zone_name' = classify_zone(risk_score.value)
    /\ pc' = "stars"
    /\ UNCHANGED <<variant, weather_data, firms_data, risk_score, heatmap_data,
                   risk_score_rounded, star_display, marker_color,
                   weather_data_full, selected_date, location, runs, other>>

\* star_display = filled * risk_score_rounded + empty * (10 - risk_score_rounded)
RenderStars ==
    /\ pc = "stars"
    /\ star_display' = star_display_of(risk_score_rounded)
    /\ pc' = "map"
    /\ UNCHANGED <<variant, weather_data, firms_data, risk_score, zone_name,
                   heatmap_data, risk_score_rounded, marker_color,
                   weather_data_full, selected_date, location, runs, other>>

\* the map builder: heatmap_data = create_heatmap_from_firms(firms_data), then
\* the marker colour; an exception in the heatmap leaves the builder before
\* the marker is coloured
CreateMap ==
    /\ pc = "map"
    /\ heatmap_data' = create_heatmap_from_firms(variant, firms_data)
    /\ pc' = IF heatmap_data'.raised = "none" THEN "done" ELSE "error"
    /\ marker_color' =
          IF heatmap_data'.raised = "none" THEN marker_color_of(risk_score.value)
          ELSE marker_color
    /\ UNCHANGED <<variant, weather_data, firms_data, risk_score, zone_name,
                   risk_score_rounded, star_display,
                   weather_data_full, selected_date, location, runs, other>>

Next == CalculateRisk \/ ClassifyZone \/ RenderStars \/ CreateMap

Spec == Init /\ [][Next]_vars

(***************************************************************************)
(* The date variant's weather lookup.  A row of the weather table holds a  *)
(* date (a day number, 0 for a date that did not parse: NaT), a location   *)
(* label and the four weather cells.                                       *)
(***************************************************************************)
\* the lookup returning the last matching row
get_weather_by_date_location_last(table, date, loc) ==
    IF table = <<>> THEN <<>>
    ELSE LET filtered == SelectSeq(table,
                 LAMBDA row : row["date"] = date /\ Lower(row["location"]) = Lower(loc))
         IN  IF filtered = <<>> THEN <<>> ELSE filtered[Len(filtered)]

get_weather_by_date_location(table, date, loc) ==
    IF table = <<>> THEN <<>>
    ELSE LET filtered == SelectSeq(table,
                 LAMBDA row : row["date"] = date /\ Lower(row["location"]) = Lower(loc))
         IN  IF filtered = <<>> THEN <<>> ELSE filtered[1]

Dates == {1, 2}
NaT == 0
Locations == { <<"T","e","x","a","s">>, <<"O","r","e","g","o","n">> }
TableLocations == { <<"T","e","x","a","s">>, <<"T","E","X","A","S">>, <<"O","r","e","g","o","n">> }

TableRows ==
    { [date |-> d, location |-> l, temperature |-> Num(t), humidity |-> Num(h),
       wind_speed |-> Num(Val(25)), precipitation |-> Num(Val(0))] :
        d \in Dates \cup {NaT}, l \in TableLocations,
        t \in {Val(20), Val(40)}, h \in {Val(20)} }

WeatherTables == UNION { [1..n -> TableRows] : n \in 0..MaxRows }

InitLookup ==
    /\ variant = "date"
    /\ weather_data_full \in WeatherTables
    /\ selected_date \in Dates
    /\ location \in Locations
    /\ weather_data = <<>>
    /\ firms_data = <<>>
    /\ pc = "lookup"
    /\ risk_score = NotRun
    /\ zone_name = "unset"
    /\ heatmap_data = [raised |-> "notrun", value |-> <<>>]
    /\ risk_score_rounded = -1
    /\ star_display = <<>>
    /\ marker_color = "unset"
    /\ runs = 1
    /\ other = NoOther

\* weather_filtered = get_weather_by_date_location(weather_data_full, selected_date, location)
LookupWeather ==
    /\ pc = "lookup"
    /\ weather_data' = get_weather_by_date_location(weather_data_full, selected_date, location)
    /\ pc' = "score"
    /\ UNCHANGED <<variant, firms_data, risk_score, zone_name, heatmap_data,
                   risk_score_rounded, star_display, marker_color,
                   weather_data_full, selected_date, location, runs, other>>

NextLookup == LookupWeather \/ CalculateRisk \/ ClassifyZone \/ RenderStars \/ CreateMap

SpecLookup == InitLookup /\ [][NextLookup]_vars

(***************************************************************************)
(* Properties.                                                             *)
(***************************************************************************)
RequiredFields(v) ==
    IF v = "date" THEN {"temperature", "humidity", "wind_speed", "precipitation"}
    ELSE {"temperature", "wind_speed", "precipitation", "weather_type"}

\* the reading has every field its variant reads
FullReading == DOMAIN weather_data = RequiredFields(variant)

Scored == pc \in {"classify", "stars", "map", "done", "error"}
Classified == zone_name # "unset"

\* C1: for every reading with numeric temperature, humidity, wind_speed and
\* precipitation, in or out of their declared domains, and every
\* weather_type label, calculate_risk_from_weather raises nothing and
\* returns a score with 0 <= score <= 10.
C1_ScoreInRange ==
    (Scored /\ FullReading) =>
        /\ risk_score.raised = "none"
        /\ risk_score.value >= ScoreVal(0)
        /\ risk_score.value <= ScoreVal(1000)

\* an out-of-domain reading (temperature -10, humidity 110) has been scored
C1_Witness ==
    /\ Scored /\ FullReading /\ variant = "date"
    /\ weather_data["temperature"] = Num(Val(-10))
    /\ weather_data["humidity"] = Num(Val(110))
    /\ risk_score.raised = "none"

ScenarioReading ==
    [temperature |-> Num(Val(20)), humidity |-> Num(Val(80)),
     wind_speed |-> Num(Val(2)), precipitation |-> Num(Val(15))]

\* C2 as stated: the reading temperature=20, humidity=80, wind_speed=2,
\* precipitation=15 scores exactly 0.0 and is classified SAFE.
C2_Original ==
    (variant = "date" /\ weather_data = ScenarioReading /\ Classified) =>
        /\ risk_score = Return(ScoreVal(0))
        /\ zone_name = "SAFE ZONE"

\* C2 amended: that reading scores exactly 0.5 (the wind factor is at its
\* floor 0.2, weighted 0.25, the other three factors are 0.0) and is
\* classified SAFE.
C2_ScenarioScore ==
    (variant = "date" /\ weather_data = ScenarioReading /\ Classified) =>
        /\ risk_score = Return(ScoreVal(50))
        /\ zone_name = "SAFE ZONE"

C2_Witness ==
    variant = "date" /\ weather_data = ScenarioReading /\ pc = "done"

\* C3 as stated: the wind factor is 0.2 at wind_speed=5, 1.0 at
\* wind_speed=25, and never below 0.2.
C3_WindFloor ==
    (Scored /\ FullReading) =>
        LET w == Float(weather_data["wind_speed"])
        IN  /\ wind_factor(w) >= Factor(2, 10)
            /\ (w = Val(5) => wind_factor(w) = Factor(2, 10))
            /\ (w = Val(25) => wind_factor(w) = Factor(1, 1))

\* every half unit from -10 to MaxPhys
Dense == Val(-10) .. Val(MaxPhys)

ScoreWith(field, x) ==
    calculate_risk_from_weather(variant, [weather_data EXCEPT ![field] = Num(x)]).value

\* C4: with the other inputs fixed, the score never decreases when the
\* temperature increases, and never increases when the humidity or the
\* precipitation increases.
C4_Monotone ==
    (pc = "classify" /\ FullReading) =>
        \A x \in Dense :
            /\ x >= Float(weather_data["temperature"])
                   => ScoreWith("temperature", x) >= risk_score.value
            /\ x <= Float(weather_data["temperature"])
                   => ScoreWith("temperature", x) <= risk_score.value
            /\ x >= Float(weather_data["precipitation"])
                   => ScoreWith("precipitation", x) <= risk_score.value
            /\ x <= Float(weather_data["precipitation"])
                   => ScoreWith("precipitation", x) >= risk_score.value
            /\ (variant = "date" /\ x >= Float(weather_data["humidity"]))
                   => ScoreWith("humidity", x) <= risk_score.value
            /\ (variant = "date" /\ x <= Float(weather_data["humidity"]))
                   => ScoreWith("humidity", x) >= risk_score.value

\* a reading inside all three interpolation ranges has been scored, and a
\* warmer, a drier and a less rainy reading score strictly higher
C4_Witness ==
    /\ pc = "classify" /\ FullReading /\ variant = "date"
    /\ weather_data["temperature"] = Num(Val(32) + 1)
    /\ weather_data["humidity"] = Num(Val(45))
    /\ weather_data["precipitation"] = Num(Val(5))
    /\ ScoreWith("temperature", Val(35)) > risk_score.value
    /\ ScoreWith("humidity", Val(30)) > risk_score.value
    /\ ScoreWith("precipitation", Val(2)) > risk_score.value

\* C5: the zone is a threshold lookup on the score: score <= 3 is SAFE ZONE,
\* 3 < score <= 6 is MODERATE RISK, score > 6 is DANGER ZONE, so that 3.0 is
\* SAFE, 3.01 MODERATE, 6.0 MODERATE and 6.01 DANGER.
C5_ZoneThresholds ==
    /\ Classified =>
        /\ zone_name \in {"SAFE ZONE", "MODERATE RISK", "DANGER ZONE"}
        /\ zone_name = "SAFE ZONE" <=> risk_score.value <= ScoreVal(300)
        /\ zone_name = "MODERATE RISK" <=>
               (risk_score.value > ScoreVal(300) /\ risk_score.value <= ScoreVal(600))
        /\ zone_name = "DANGER ZONE" <=> risk_score.value > ScoreVal(600)
    /\ classify_zone(ScoreVal(300)) = "SAFE ZONE"
    /\ classify_zone(ScoreVal(301)) = "MODERATE RISK"
    /\ classify_zone(ScoreVal(600)) = "MODERATE RISK"
    /\ classify_zone(ScoreVal(601)) = "DANGER ZONE"

\* a score of exactly 6.0 has been classified MODERATE RISK
C5_Witness ==
    Classified /\ risk_score = Return(ScoreVal(600)) /\ zone_name = "MODERATE RISK"

\* C6 as stated: a reading that lacks a required field, the entirely empty
\* reading included, never gets a numeric score: the call fails.
C6_Original ==
    (Scored /\ ~FullReading) => risk_score.raised # "none"

\* C6 amended: a non-empty reading that lacks a field its variant reads makes
\* calculate_risk_from_weather raise KeyError and return no score; the
\* entirely empty reading is not an error and returns the default 5.0.
C6_MissingField ==
    (Scored /\ ~FullReading) =>
        IF DOMAIN weather_data = {}
        THEN risk_score = Return(ScoreVal(500))
        ELSE risk_score = Raise("KeyError") /\ pc = "error"

\* a reading holding everything but its temperature has been refused
C6_Witness ==
    /\ pc = "error"
    /\ DOMAIN weather_data = RequiredFields(variant) \ {"temperature"}
    /\ risk_score.raised = "KeyError"

Clamp(x, lo, hi) == IF x < lo THEN lo ELSE IF x > hi THEN hi ELSE x

\* 6000 * clamp(0.6*clamp(frp/100,0,1) + 0.4*clamp((bright-300)/100,0,1), 0.1, 1.0)
\* for inputs in halves
IntensityFormula(bright, frp) ==
    Clamp(6 * Clamp(3 * frp, 0, 600) + 4 * Clamp(3 * (bright - 600), 0, 600), 600, 6000)

AllNumeric(fd) ==
    \A i \in 1..Len(fd) : \A c \in DOMAIN fd[i] : fd[i][c].num

MapBuilt == heatmap_data.raised = "none"

\* C7: every emitted intensity is
\* clamp(0.6*clamp(frp/100, 0, 1) + 0.4*clamp((bright_t31-300)/100, 0, 1), 0.1, 1.0),
\* so it lies in [0.1, 1.0], and bright_t31=350 with frp=50 gives exactly 0.5.
C7_Intensity ==
    (MapBuilt /\ firms_data # <<>>) =>
        \A i \in 1..Len(firms_data) :
            LET b == firms_data[i]["bright_t31"].val
                f == firms_data[i]["frp"].val
                p == heatmap_data.value[i]
            IN  /\ p[3] = IntensityFormula(b, f)
                /\ p[3] >= IntensityVal(1, 10)
                /\ p[3] <= IntensityVal(1, 1)
                /\ (b = Val(350) /\ f = Val(50)) => p[3] = IntensityVal(5, 10)

\* the detection bright_t31=350, frp=50 has been given intensity 0.5, next to
\* one below the range (250, -10) held at 0.1
C7_Witness ==
    /\ MapBuilt /\ Len(firms_data) = 2
    /\ firms_data[1]["bright_t31"] = Num(Val(350)) /\ firms_data[1]["frp"] = Num(Val(50))
    /\ firms_data[2]["bright_t31"] = Num(Val(250)) /\ firms_data[2]["frp"] = Num(Val(-10))
    /\ heatmap_data.value[1][3] = IntensityVal(5, 10)
    /\ heatmap_data.value[2][3] = IntensityVal(1, 10)

\* C8: for a non-empty table of n detections with numeric cells,
\* create_heatmap_from_firms returns n points, the i-th with the latitude and
\* longitude of the i-th detection, and leaves the table as it was.
C8_OnePointPerDetection ==
    [][(pc = "map" /\ firms_data # <<>> /\ AllNumeric(firms_data)) =>
          /\ firms_data' = firms_data
          /\ heatmap_data'.raised = "none"
          /\ Len(heatmap_data'.value) = Len(firms_data)
          /\ \A i \in 1..Len(firms_data) :
                /\ heatmap_data'.value[i][1] = firms_data[i]["latitude"].val
                /\ heatmap_data'.value[i][2] = firms_data[i]["longitude"].val]_vars

\* two detections at different latitudes have become two points in that order
C8_Witness ==
    /\ pc = "done" /\ Len(firms_data) = 2
    /\ firms_data[1]["latitude"] = Num(340522)
    /\ firms_data[2]["latitude"] = Num(367783)
    /\ Len(heatmap_data.value) = 2
    /\ heatmap_data.value[1][1] = 340522
    /\ heatmap_data.value[2][1] = 367783

\* C9 as stated: for an empty detection table every variant returns exactly
\* one point, at (36.7783, -119.4179), with intensity 0.1.
C9_Fallback ==
    (pc = "done" /\ firms_data = <<>>) =>
        heatmap_data = Return(<< <<DefaultLat, DefaultLon, IntensityVal(1, 10)>> >>)

\* a row whose four cells are numeric and whose coordinate is on the globe
WellFormed(row) ==
    /\ \A c \in DOMAIN row : row[c].num
    /\ row["latitude"].val >= -900000 /\ row["latitude"].val <= 900000
    /\ row["longitude"].val >= -1800000 /\ row["longitude"].val <= 1800000

RECURSIVE PointsOf(_)
PointsOf(rows) ==
    IF rows = <<>> THEN <<>> ELSE <<heatmap_point(Head(rows))>> \o PointsOf(Tail(rows))

\* C10 as stated: a detection with a non-numeric or out-of-domain value in a
\* required field is skipped, and the call returns the points of all the
\* other records.
C10_MalformedSkipped ==
    (pc \in {"done", "error"}
        /\ \E i \in 1..Len(firms_data) : ~WellFormed(firms_data[i])
        /\ \E j \in 1..Len(firms_data) : WellFormed(firms_data[j])) =>
        heatmap_data = Return(PointsOf(SelectSeq(firms_data, WellFormed)))

\* C11: the temperature factor is 0.0 at 25, 0.5 at 32.5 and 1.0 at 40, the
\* humidity factor is 0.0 at 70, 0.5 at 45 and 1.0 at 20, and neither factor
\* jumps at a breakpoint: the interpolation formula taken at the breakpoint
\* gives the clamped value, and between two readings half a unit apart a
\* factor changes by at most one interpolation step.
C11_BoundaryExact ==
    (Scored /\ FullReading /\ variant = "date") =>
        LET t == Float(weather_data["temperature"])
            h == Float(weather_data["humidity"])
        IN  /\ (t = Val(25) => temp_factor(t) = Factor(0, 1))
            /\ (t = Val(32) + 1 => temp_factor(t) = Factor(1, 2))
            /\ (t = Val(40) => temp_factor(t) = Factor(1, 1))
            /\ (h = Val(70) => humidity_factor(h) = Factor(0, 1))
            /\ (h = Val(45) => humidity_factor(h) = Factor(1, 2))
            /\ (h = Val(20) => humidity_factor(h) = Factor(1, 1))
            /\ Factor(Val(25) - Val(25), Val(15)) = temp_factor(Val(25) - 1)
            /\ Factor(Val(40) - Val(25), Val(15)) = temp_factor(Val(40))
            /\ Factor(Val(70) - Val(70), Val(50)) = humidity_factor(Val(70))
            /\ Factor(Val(70) - Val(20), Val(50)) = humidity_factor(Val(20))
            /\ temp_factor(t + 1) - temp_factor(t) \in 0 .. Factor(1, Val(15))
            /\ temp_factor(t) - temp_factor(t - 1) \in 0 .. Factor(1, Val(15))
            /\ humidity_factor(h) - humidity_factor(h + 1) \in 0 .. Factor(1, Val(50))
            /\ humidity_factor(h - 1) - humidity_factor(h) \in 0 .. Factor(1, Val(50))

\* the reading temperature=32.5, humidity=45 has been scored with both
\* factors at 0.5
C11_Witness ==
    /\ Scored /\ FullReading /\ variant = "date"
    /\ weather_data["temperature"] = Num(Val(32) + 1)
    /\ weather_data["humidity"] = Num(Val(45))
    /\ temp_factor(Val(32) + 1) = Factor(1, 2)
    /\ humidity_factor(Val(45)) = Factor(1, 2)

\* C14: the star display is round(score) filled stars followed by
\* 10 - round(score) empty ones, ten symbols in all with 0..10 of them
\* filled, round being the nearest integer with a tie going to the even
\* one: a score of 2.5 shows 2 filled stars.
C14_StarDisplay ==
    pc \in {"map", "done"} =>
        LET n == risk_score_rounded
            d == risk_score.value - ScoreVal(100) * n
        IN  /\ n \in 0..10
            /\ d >= 0 - ScoreVal(50) /\ d <= ScoreVal(50)
            /\ (d = ScoreVal(50) \/ d = 0 - ScoreVal(50)) => n % 2 = 0
            /\ Len(star_display) = 10
            /\ \A i \in 1..10 : star_display[i] = IF i <= n THEN "filled" ELSE "empty"
            /\ risk_score.value = ScoreVal(250) => n = 2

\* a score of exactly 2.5 is shown with two filled stars
C14_Witness ==
    /\ pc = "done" /\ risk_score = Return(ScoreVal(250))
    /\ star_display = <<"filled", "filled", "empty", "empty", "empty", "empty",
                        "empty", "empty", "empty", "empty">>

\* C17: the marker colour agrees with the zone shown for the same score:
\* green exactly with SAFE ZONE, orange exactly with MODERATE RISK, red
\* exactly with DANGER ZONE, also at the scores 3 and 6.
C17_MarkerMatchesZone ==
    marker_color # "unset" =>
        /\ marker_color = "green" <=> zone_name = "SAFE ZONE"
        /\ marker_color = "orange" <=> zone_name = "MODERATE RISK"
        /\ marker_color = "red" <=> zone_name = "DANGER ZONE"
        /\ marker_color \in {"green", "orange", "red"}

\* a score of exactly 3.0 has a green marker in the SAFE ZONE
C17_Witness ==
    /\ pc = "done" /\ risk_score = Return(ScoreVal(300))
    /\ marker_color = "green" /\ zone_name = "SAFE ZONE"

\* C15 as stated: with temperature, humidity and precipitation fixed, the
\* score never decreases when the wind speed increases, also across the
\* 5 km/h breakpoint.
C15_WindMonotone ==
    (pc = "classify" /\ FullReading) =>
        \A x \in Dense :
            /\ x >= Float(weather_data["wind_speed"])
                   => ScoreWith("wind_speed", x) >= risk_score.value
            /\ x <= Float(weather_data["wind_speed"])
                   => ScoreWith("wind_speed", x) <= risk_score.value

\* two labels that differ at most in the case of their letters
EqIgnoreCase(a, b) ==
    /\ Len(a) = Len(b)
    /\ \A i \in 1..Len(a) :
          \/ a[i] = b[i]
          \/ a[i] \in DOMAIN UpperToLower /\ UpperToLower[a[i]] = b[i]
          \/ b[i] \in DOMAIN UpperToLower /\ UpperToLower[b[i]] = a[i]

\* C13: in the weather_type variant the weather factor is the table value of
\* the label, matched without regard to case, and 0.5 for a label that is
\* not in the table; no label raises an error.
C13_WeatherFactor ==
    (Scored /\ FullReading /\ variant = "legacy") =>
        LET label == weather_data["weather_type"]
            known == { e \in weather_risk : EqIgnoreCase(e[1], label) }
            expected == IF known = {} THEN Factor(5, 10) ELSE (CHOOSE e \in known : TRUE)[2]
        IN  /\ Cardinality(known) <= 1
            /\ weather_factor(Lower(label)) = expected
            /\ risk_score =
                  Return((35 * temp_factor(Float(weather_data["temperature"]))
                          + 30 * wind_factor(Float(weather_data["wind_speed"]))
                          + 20 * precip_factor(Float(weather_data["precipitation"]))
                          + 15 * expected) * 10)

\* the label "RAIN" has been scored with the factor 0.0 of "rain"
C13_Witness ==
    /\ Scored /\ FullReading /\ variant = "legacy"
    /\ weather_data["weather_type"] = <<"R", "A", "I", "N">>
    /\ weather_data["temperature"] = Num(Val(40))
    /\ weather_data["wind_speed"] = Num(Val(25))
    /\ weather_data["precipitation"] = Num(Val(0))
    /\ risk_score = Return(ScoreVal(850))

\* the rows of the weather table for the selected date and location
Matching ==
    { i \in 1..Len(weather_data_full) :
        /\ weather_data_full[i]["date"] = selected_date
        /\ EqIgnoreCase(weather_data_full[i]["location"], location) }

\* C16: when no row of the weather table is for the selected date and
\* location (compared without regard to case), or the table is empty, the
\* lookup returns an empty reading and the script goes on to the score 5.0
\* and the zone MODERATE RISK without an error; otherwise the first matching
\* row in table order is the reading that is scored.
C16_LookupFallback ==
    pc \notin {"lookup"} =>
        IF Matching = {}
        THEN /\ weather_data = <<>>
             /\ pc # "error"
             /\ Scored => risk_score = Return(ScoreVal(500))
             /\ Classified => zone_name = "MODERATE RISK"
        ELSE LET first == CHOOSE i \in Matching : \A j \in Matching : i <= j
                 row == weather_data_full[first]
             IN  /\ weather_data = row
                 /\ pc # "error"
                 /\ Scored => risk_score =
                        Return(risk_formula_date(row["temperature"].val, row["humidity"].val,
                                                 row["wind_speed"].val, row["precipitation"].val))

\* a table with rows for the right location on another day only: the script
\* has finished with the default score
C16_Witness ==
    /\ pc = "done" /\ Len(weather_data_full) = 2
    /\ \A i \in 1..2 : /\ EqIgnoreCase(weather_data_full[i]["location"], location)
                       /\ weather_data_full[i]["date"] # selected_date
    /\ weather_data = <<>>
    /\ risk_score = Return(ScoreVal(500))
    /\ zone_name = "MODERATE RISK"

(***************************************************************************)
(* Two sessions of the same program side by side.  The first is run again  *)
(* and again on new inputs (every interaction reruns the script), its      *)
(* variables keeping what the previous run left until the new run assigns  *)
(* them; the second runs once.                                             *)
(***************************************************************************)
PairReadings(v) ==
    {<<>>} \cup { r \in FullReadings(v) :
                    /\ r["temperature"] \in {Num(Val(20)), Num(Val(40))}
                    /\ r["wind_speed"] = Num(Val(25))
                    /\ r["precipitation"] = Num(Val(0))
                    /\ v = "date" => r["humidity"] = Num(Val(45))
                    /\ v = "legacy" => r["weather_type"] = <<"R", "a", "i", "n">> }

PairRow(lat, frp) ==
    [latitude |-> Num(lat), longitude |-> Num(-1182437),
     bright_t31 |-> Num(Val(350)), frp |-> frp]

PairTables ==
    { <<>>, <<PairRow(340522, Num(Val(50)))>>,
      <<PairRow(367783, Num(Val(150))), PairRow(340522, Num(Val(50)))>>,
      <<PairRow(367783, NonNumeric)>> }

InitPair ==
    /\ variant \in Variants
    /\ weather_data \in PairReadings(variant)
    /\ firms_data \in PairTables
    /\ pc = "score"
    /\ risk_score = NotRun
    /\ zone_name = "unset"
    /\ heatmap_data = [raised |-> "notrun", value |-> <<>>]
    /\ risk_score_rounded = -1
    /\ star_display = <<>>
    /\ marker_color = "unset"
    /\ weather_data_full = <<>>
    /\ selected_date = 0
    /\ location = <<>>
    /\ runs = 1
    /\ \E wd \in PairReadings(variant), fd \in PairTables :
          other = [NoOther EXCEPT !.weather_data = wd, !.firms_data = fd, !.pc = "score"]

\* the script is run again, on other inputs or the same
Rerun ==
    /\ pc \in {"done", "error"}
    /\ runs < MaxRuns
    /\ runs' = runs + 1
    /\ weather_data' \in PairReadings(variant)
    /\ firms_data' \in PairTables
    /\ pc' = "score"
    /\ UNCHANGED <<variant, risk_score, zone_name, heatmap_data, risk_score_rounded,
                   star_display, marker_color, weather_data_full, selected_date,
                   location, other>>

OtherCalculateRisk ==
    /\ other.pc = "score"
    /\ LET result == calculate_risk_from_weather(variant, other.weather_data)
       IN  other' = [other EXCEPT !.risk_score = result,
                                  !.pc = IF result.raised = "none" THEN "classify" ELSE "error"]
    /\ UNCHANGED <<variant, weather_data, firms_data, pc, risk_score, zone_name,
                   heatmap_data, risk_score_rounded, star_display, marker_color,
                   weather_data_full, selected_date, location, runs>>

OtherClassifyZone ==
    /\ other.pc = "classify"
    /\ other' = [other EXCEPT !.zone_name = classify_zone(other.risk_score.value),
                              !.pc = "map"]
    /\ UNCHANGED <<variant, weather_data, firms_data, pc, risk_score, zone_name,
                   heatmap_data, risk_score_rounded, star_display, marker_color,
                   weather_data_full, selected_date, location, runs>>

OtherCreateMap ==
    /\ other.pc = "map"
    /\ LET result == create_heatmap_from_firms(variant, other.firms_data)
       IN  other' = [other EXCEPT !.heatmap_data = result,
                                  !.pc = IF result.raised = "none" THEN "done" ELSE "error"]
    /\ UNCHANGED <<variant, weather_data, firms_data, pc, risk_score, zone_name,
                   heatmap_data, risk_score_rounded, star_display, marker_color,
                   weather_data_full, selected_date, location, runs>>

NextPair ==
    \/ CalculateRisk \/ ClassifyZone \/ RenderStars \/ CreateMap \/ Rerun
    \/ OtherCalculateRisk \/ OtherClassifyZone \/ OtherCreateMap

SpecPair == InitPair /\ [][NextPair]_vars

\* the first session seen as a record like the second
This ==
    [weather_data |-> weather_data, firms_data |-> firms_data, pc |-> pc,
     risk_score |-> risk_score, zone_name |-> zone_name, heatmap_data |-> heatmap_data]

\* what the current run of a session has assigned so far
HasScore(run) == run.pc # "score"
HasZone(run) == run.pc \in {"stars", "map", "done"} \/ (run.pc = "error" /\ run.risk_score.raised = "none")
HasMap(run) == run.pc = "done" \/ (run.pc = "error" /\ run.risk_score.raised = "none")

\* C12: two sessions given the same reading and the same detection table
\* get the same score (or the same exception), the same zone and the same
\* list of points, whatever the first session computed in its earlier runs.
C12_Deterministic ==
    (weather_data = other.weather_data /\ firms_data = other.firms_data) =>
        /\ (HasScore(This) /\ HasScore(other)) => risk_score = other.risk_score
        /\ (HasZone(This) /\ HasZone(other)) => zone_name = other.zone_name
        /\ (HasMap(This) /\ HasMap(other)) => heatmap_data = other.heatmap_data

\* the first session, in its second run, and the second session have both
\* finished on the same reading and the same two detections
C12_Witness ==
    /\ runs = 2 /\ pc = "done" /\ other.pc = "done"
    /\ weather_data = other.weather_data /\ weather_data # <<>>
    /\ firms_data = other.firms_data /\ Len(firms_data) = 2
    /\ risk_score = other.risk_score
    /\ heatmap_data = other.heatmap_data /\ Len(heatmap_data.value) = 2

====
